---- MODULE Spec2Model ----
(***************************************************************************)
(* Model of autodoc.Document (src/autodoc/autodoc.go): the fan-out /       *)
(* fan-in pipeline that loads the templates, launches one goroutine per    *)
(* output document and drains one result per goroutine from errChan.       *)
(*                                                                         *)
(* Strings are modelled as sequences of tokens (concatenation is \o), so   *)
(* that suffixing and stripping a file extension are computed, not         *)
(* assumed.  A path is a sequence of components, each component a string.  *)
(***************************************************************************)
EXTENDS Integers, Sequences, FiniteSets, TLC

\* ------------------------------------------------------------------ bounds

\* Largest number of entries of provider.ResourcesMap
MaxResources == 2
\* Largest number of entries of provider.DataSourcesMap
MaxDataSources == 1

\* ----------------------------------------------------------------- strings

Str(tok) == <<tok>>
EmptyStr == <<>>

HasSuffix(s, suffix) ==
    /\ Len(s) >= Len(suffix)
    /\ SubSeq(s, Len(s) - Len(suffix) + 1, Len(s)) = suffix

TrimSuffix(s, suffix) ==
    IF HasSuffix(s, suffix) THEN SubSeq(s, 1, Len(s) - Len(suffix)) ELSE s

\* ------------------------------------------------------------------- paths

DotDot == Str("..")
Dot == Str(".")

\* filepath.Clean on a relative path: "." and empty components are dropped,
\* ".." removes the component before it (a leading ".." stays).
RECURSIVE CleanFrom(_, _)
CleanFrom(done, rest) ==
    IF rest = <<>> THEN done
    ELSE LET c == Head(rest) IN
         IF c = Dot \/ c = EmptyStr THEN CleanFrom(done, Tail(rest))
         ELSE IF c = DotDot /\ done # <<>> /\ done[Len(done)] # DotDot
              THEN CleanFrom(SubSeq(done, 1, Len(done) - 1), Tail(rest))
              ELSE CleanFrom(Append(done, c), Tail(rest))

Clean(path) == CleanFrom(<<>>, path)

RECURSIVE Flatten(_)
Flatten(elems) ==
    IF elems = <<>> THEN <<>> ELSE Head(elems) \o Flatten(Tail(elems))

\* filepath.Join(elems...): the elements joined by the separator, cleaned.
\* Each element is itself a sequence of components (it may hold separators).
Join(elems) == Clean(Flatten(elems))

\* name + ".md" for a name that is a sequence of components
AddMd(name) ==
    IF name = <<>> THEN << Str(".md") >>
    ELSE [name EXCEPT ![Len(name)] = @ \o Str(".md")]

\* ------------------------------------------------------- program constants

\* make(chan error, 1)
ChanCap == 1

mkdocsYmlTemplate == Str("mkdocs.yml")
providerMdTemplate == Str("index.md")
resourceMdTemplate == Str("resource.md")
dataSourceMdTemplate == Str("datasource.md")

typeProvider == "provider"
typeResource == "resource"
typeDataSource == "datasource"
typeMkdocs == "mkdocs"

\* ------------------------------------------------------------------ inputs

Widget == << Str("widget") >>
Gadget == << Str("gadget") >>
\* an entity name holding separators: "../data-sources/widget"
Sneaky == << DotDot, Str("data-sources"), Str("widget") >>

ResourceNames == {Widget, Gadget, Sneaky}
DataSourceNames == {Widget, Gadget}

DocsDirs == { << Str("docs") >> }
TemplateFileExts == { Str(".template"), EmptyStr }

File(dir, name, parses) == [dir |-> dir, name |-> name, parses |-> parses]

Bindings ==
    {mkdocsYmlTemplate, providerMdTemplate, resourceMdTemplate, dataSourceMdTemplate}

\* The four template files, each named <binding><ext>
StandardFiles(ext) == {File("", b \o ext, TRUE) : b \in Bindings}
\* The four template files, each named <binding><ext><ext>
DoubledFiles(ext) == {File("", b \o ext \o ext, TRUE) : b \in Bindings}

\* The template directory trees the runs are given
TemplateDirs(ext) ==
    { [exists |-> FALSE, files |-> {}],
      [exists |-> TRUE, files |-> StandardFiles(ext)],
      [exists |-> TRUE, files |-> DoubledFiles(ext)],
      [exists |-> TRUE,
       files |-> DoubledFiles(ext) \ {File("", resourceMdTemplate \o ext \o ext, TRUE)}],
      [exists |-> TRUE,
       files |-> StandardFiles(ext) \cup {File("sub", providerMdTemplate \o ext, TRUE)}],
      [exists |-> TRUE,
       files |-> (StandardFiles(ext) \ {File("", providerMdTemplate \o ext, TRUE)})
                 \cup {File("", providerMdTemplate \o ext, FALSE)}] }

Providers ==
    { [ResourcesMap |-> r, DataSourcesMap |-> d] :
        r \in {x \in SUBSET ResourceNames : Cardinality(x) <= MaxResources},
        d \in {x \in SUBSET DataSourceNames : Cardinality(x) <= MaxDataSources} }

\* ------------------------------------------------------------------- tasks

Task(schemaType, name) == [schemaType |-> schemaType, name |-> name]

MkdocsTask == Task(typeMkdocs, <<>>)
IndexTask == Task(typeProvider, <<>>)
NoTask == Task("none", <<>>)

AllTasks ==
    {MkdocsTask, IndexTask}
        \cup {Task(typeResource, n) : n \in ResourceNames}
        \cup {Task(typeDataSource, n) : n \in DataSourceNames}

TasksOf(p) ==
    {MkdocsTask, IndexTask}
        \cup {Task(typeResource, n) : n \in p.ResourcesMap}
        \cup {Task(typeDataSource, n) : n \in p.DataSourcesMap}

\* ----------------------------------------------------------------- results

Result(kind, task) == [kind |-> kind, task |-> task]
Nil == Result("nil", NoTask)
ArgumentError == Result("ArgumentError", NoTask)
TemplateLoadError == Result("TemplateLoadError", NoTask)

\* ------------------------------------------------------------- TemplateSet

NoTemplates == [err |-> Nil, names |-> {}]

\* Build(rootDir, fileExtension): every file whose name ends with the
\* extension is parsed and registered under its name with the extension
\* stripped; a missing directory, a file that does not parse and two files
\* with the same stripped name each fail the whole load.
Build(dir, ext) ==
    LET matching == {f \in dir.files : HasSuffix(f.name, ext)}
        failed ==
            \/ ~dir.exists
            \/ \E f \in matching : ~f.parses
            \/ \E f, g \in matching :
                   f # g /\ TrimSuffix(f.name, ext) = TrimSuffix(g.name, ext)
    IN  IF failed
        THEN [err |-> TemplateLoadError, names |-> {}]
        ELSE [err |-> Nil, names |-> {TrimSuffix(f.name, ext) : f \in matching}]

parseTemplates(a) == Build(a.templatesDir, a.templateFileExt)

Lookup(set, name) == name \in set.names

\* The template binding of each kind of task
BindingOf(t) ==
    CASE t.schemaType = typeMkdocs -> mkdocsYmlTemplate
      [] t.schemaType = typeProvider -> providerMdTemplate
      [] t.schemaType = typeResource -> resourceMdTemplate
      [] t.schemaType = typeDataSource -> dataSourceMdTemplate

\* ------------------------------------------------------------------ faults

NoFaults == [render |-> {}, write |-> {}]

\* The tasks of a run whose template is found: only these reach template
\* execution and the file write, so only these can fail there.
Faultable(a, p) ==
    {t \in TasksOf(p) :
        Lookup(parseTemplates(a), BindingOf(t) \o a.templateFileExt)}

\* Which task fails in template execution or in writing its file: none, or
\* one task in one of the two ways
Faults(a, p) ==
    {NoFaults}
        \cup {[render |-> {t}, write |-> {}] : t \in Faultable(a, p)}
        \cup {[render |-> {}, write |-> {t}] : t \in Faultable(a, p)}

\* --------------------------------------------------------------- variables

VARIABLES
    args,            \* what parseArgs yields: err, help, docsDir, templatesDir, templateFileExt
    provider,        \* the *schema.Provider: ResourcesMap, DataSourcesMap
    faults,          \* the tasks whose template execution / file write fails
    pc,              \* where Document is
    errors,          \* Document's errors slice
    templates,       \* the loaded TemplateSet
    chanMade,        \* errChan has been created
    errChan,         \* the buffered contents of errChan
    totalGoroutines, \* Document's counter of launched goroutines
    i,               \* the drain loop's index
    pendingRes,      \* resource map entries the range loop has not visited
    pendingDs,       \* data-source map entries the range loop has not visited
    goroutines,      \* launched goroutines: their goroutineBase, status, result
    files,           \* the output files written so far: path -> content
    usagePrinted     \* Usage() has printed

vars ==
    << args, provider, faults, pc, errors, templates, chanMade, errChan,
       totalGoroutines, i, pendingRes, pendingDs, goroutines, files, usagePrinted >>

inputs == << args, provider, faults >>

NoGoroutines == [t \in {} |-> 0]
NoFiles == [p \in {} |-> 0]

Launched == DOMAIN goroutines

Init ==
    /\ \E ext \in TemplateFileExts :
         args \in [ err : BOOLEAN, help : BOOLEAN, docsDir : DocsDirs,
                    templatesDir : TemplateDirs(ext), templateFileExt : {ext} ]
    /\ provider \in Providers
    /\ faults \in Faults(args, provider)
    /\ pc = "parseArgs"
    /\ errors = <<>>
    /\ templates = NoTemplates
    /\ chanMade = FALSE
    /\ errChan = <<>>
    /\ totalGoroutines = 0
    /\ i = 0
    /\ pendingRes = {}
    /\ pendingDs = {}
    /\ goroutines = NoGoroutines
    /\ files = NoFiles
    /\ usagePrinted = FALSE

\* -------------------------------------------------- what each launch hands over

\* OutFile with the data sources filed under "resources" as well
OutFileOneDir(t) ==
    CASE t.schemaType = typeMkdocs -> Join(<< << Str("mkdocs.yml") >> >>)
      [] t.schemaType = typeProvider ->
            Join(<< args.docsDir, << Str("index.md") >> >>)
      [] OTHER ->
            Join(<< args.docsDir, << Str("resources") >>, AddMd(t.name) >>)

\* outFile of the goroutineBase a task is launched with
OutFile(t) ==
    CASE t.schemaType = typeMkdocs -> Join(<< << Str("mkdocs.yml") >> >>)
      [] t.schemaType = typeProvider ->
            Join(<< args.docsDir, << Str("index.md") >> >>)
      [] t.schemaType = typeResource ->
            Join(<< args.docsDir, << Str("resources") >>, AddMd(t.name) >>)
      [] t.schemaType = typeDataSource ->
            Join(<< args.docsDir, << Str("data-sources") >>, AddMd(t.name) >>)

\* TemplateName with the resource documents bound to the data-source template
TemplateNameSwapped(t) ==
    IF t.schemaType = typeResource
    THEN dataSourceMdTemplate \o args.templateFileExt
    ELSE BindingOf(t) \o args.templateFileExt

\* templateName of the goroutineBase a task is launched with
TemplateName(t) == BindingOf(t) \o args.templateFileExt

\* goroutineBase handed a template set that was never built
goroutineBaseUnbuilt(t) ==
    [ outFile |-> OutFile(t), template |-> NoTemplates,
      templateName |-> TemplateName(t), status |-> "running", result |-> Nil ]

goroutineBase(t) ==
    [ outFile |-> OutFile(t), template |-> templates,
      templateName |-> TemplateName(t), status |-> "running", result |-> Nil ]

\* Go with the counter left alone
GoUncounted(t) ==
    /\ totalGoroutines' = totalGoroutines
    /\ goroutines' = (t :> goroutineBase(t)) @@ goroutines

\* totalGoroutines += 1; go generate...(...)
Go(t) ==
    /\ totalGoroutines' = totalGoroutines + 1
    /\ goroutines' = (t :> goroutineBase(t)) @@ goroutines

\* ---------------------------------------------------------------- Document

\* ParseArgs without the return after the append
ParseArgsNoReturn ==
    /\ pc = "parseArgs"
    /\ errors' = IF args.err THEN Append(errors, ArgumentError) ELSE errors
    /\ pc' = "checkHelp"
    /\ UNCHANGED << inputs, templates, chanMade, errChan, totalGoroutines, i,
                    pendingRes, pendingDs, goroutines, files, usagePrinted >>

\* args, argsErr := parseArgs(); if argsErr != nil { append; return }
ParseArgs ==
    /\ pc = "parseArgs"
    /\ IF args.err
       THEN /\ errors' = Append(errors, ArgumentError)
            /\ pc' = "done"
       ELSE /\ pc' = "checkHelp"
            /\ UNCHANGED errors
    /\ UNCHANGED << inputs, templates, chanMade, errChan, totalGoroutines, i,
                    pendingRes, pendingDs, goroutines, files, usagePrinted >>

\* CheckHelp without the return after Usage()
CheckHelpNoReturn ==
    /\ pc = "checkHelp"
    /\ usagePrinted' = args.help
    /\ pc' = "parseTemplates"
    /\ UNCHANGED << inputs, errors, templates, chanMade, errChan, totalGoroutines,
                    i, pendingRes, pendingDs, goroutines, files >>

\* if args.help { Usage(); return errors }
CheckHelp ==
    /\ pc = "checkHelp"
    /\ IF args.help
       THEN /\ usagePrinted' = TRUE
            /\ pc' = "done"
       ELSE /\ pc' = "parseTemplates"
            /\ UNCHANGED usagePrinted
    /\ UNCHANGED << inputs, errors, templates, chanMade, errChan, totalGoroutines,
                    i, pendingRes, pendingDs, goroutines, files >>

\* templates, tmplErr := parseTemplates(args); if tmplErr != nil { append; return }
ParseTemplates ==
    /\ pc = "parseTemplates"
    /\ LET loaded == parseTemplates(args) IN
       IF loaded.err # Nil
       THEN /\ errors' = Append(errors, loaded.err)
            /\ pc' = "done"
            /\ UNCHANGED templates
       ELSE /\ templates' = loaded
            /\ pc' = "makeChan"
            /\ UNCHANGED errors
    /\ UNCHANGED << inputs, chanMade, errChan, totalGoroutines, i, pendingRes,
                    pendingDs, goroutines, files, usagePrinted >>

\* errChan := make(chan error, 1); totalGoroutines := 0
MakeChan ==
    /\ pc = "makeChan"
    /\ chanMade' = TRUE
    /\ errChan' = <<>>
    /\ totalGoroutines' = 0
    /\ pc' = "mkdocs"
    /\ UNCHANGED << inputs, errors, templates, i, pendingRes, pendingDs,
                    goroutines, files, usagePrinted >>

\* generate mkdocs.yml file
LaunchMkdocs ==
    /\ pc = "mkdocs"
    /\ Go(MkdocsTask)
    /\ pc' = "index"
    /\ UNCHANGED << inputs, errors, templates, chanMade, errChan, i, pendingRes,
                    pendingDs, files, usagePrinted >>

\* generate index.md for provider documentation; the range over ResourcesMap
\* starts next
LaunchIndex ==
    /\ pc = "index"
    /\ Go(IndexTask)
    /\ pendingRes' = provider.ResourcesMap
    /\ pc' = "resources"
    /\ UNCHANGED << inputs, errors, templates, chanMade, errChan, i, pendingDs,
                    files, usagePrinted >>

\* one iteration of: for name, resource := range provider.ResourcesMap
\* (a Go map is ranged over in no fixed order)
LaunchResource ==
    /\ pc = "resources"
    /\ \E name \in pendingRes :
         /\ Go(Task(typeResource, name))
         /\ pendingRes' = pendingRes \ {name}
    /\ UNCHANGED << inputs, pc, errors, templates, chanMade, errChan, i, pendingDs,
                    files, usagePrinted >>

\* the range over ResourcesMap ends; the range over DataSourcesMap starts
ResourcesDone ==
    /\ pc = "resources"
    /\ pendingRes = {}
    /\ pendingDs' = provider.DataSourcesMap
    /\ pc' = "datasources"
    /\ UNCHANGED << inputs, errors, templates, chanMade, errChan, totalGoroutines,
                    i, pendingRes, goroutines, files, usagePrinted >>

\* one iteration of: for name, resource := range provider.DataSourcesMap
LaunchDataSource ==
    /\ pc = "datasources"
    /\ \E name \in pendingDs :
         /\ Go(Task(typeDataSource, name))
         /\ pendingDs' = pendingDs \ {name}
    /\ UNCHANGED << inputs, pc, errors, templates, chanMade, errChan, i, pendingRes,
                    files, usagePrinted >>

\* the range over DataSourcesMap ends; the drain loop starts with i := 0
DataSourcesDone ==
    /\ pc = "datasources"
    /\ pendingDs = {}
    /\ i' = 0
    /\ pc' = "drain"
    /\ UNCHANGED << inputs, errors, templates, chanMade, errChan, totalGoroutines,
                    pendingRes, pendingDs, goroutines, files, usagePrinted >>

\* the drain loop asking for one result more than there are workers
DrainOneTooMany == i <= totalGoroutines

\* the drain loop ending one receive early
DrainStopsEarly == i < totalGoroutines - 1

\* the drain loop giving up at the first error
DrainStopsOnError == i < totalGoroutines /\ errors = <<>>

\* the drain loop's condition: i < totalGoroutines
DrainContinues == i < totalGoroutines

\* Collect putting the newest error first
CollectInFront(errs, err) == IF err # Nil THEN << err >> \o errs ELSE errs

\* Collect keeping only the first error
CollectFirstOnly(errs, err) ==
    IF err # Nil /\ errs = <<>> THEN Append(errs, err) ELSE errs

\* if err != nil { errors = append(errors, err) }
Collect(errs, err) == IF err # Nil THEN Append(errs, err) ELSE errs

\* Receive already taken while tasks are still being submitted
ReceiveWhileSubmitting ==
    /\ pc \in {"resources", "datasources", "drain"}
    /\ DrainContinues
    /\ errChan # <<>>
    /\ errors' = Collect(errors, Head(errChan))
    /\ errChan' = Tail(errChan)
    /\ i' = i + 1
    /\ UNCHANGED << inputs, pc, templates, chanMade, totalGoroutines, pendingRes,
                    pendingDs, goroutines, files, usagePrinted >>

\* one iteration of the drain loop: err := <-errChan; collect; i++
Receive ==
    /\ pc = "drain"
    /\ DrainContinues
    /\ errChan # <<>>
    /\ errors' = Collect(errors, Head(errChan))
    /\ errChan' = Tail(errChan)
    /\ i' = i + 1
    /\ UNCHANGED << inputs, pc, templates, chanMade, totalGoroutines, pendingRes,
                    pendingDs, goroutines, files, usagePrinted >>

\* Return that gives up on the results still missing
ReturnOnTimeout ==
    /\ pc = "drain"
    /\ pc' = "done"
    /\ UNCHANGED << inputs, errors, templates, chanMade, errChan, totalGoroutines,
                    i, pendingRes, pendingDs, goroutines, files, usagePrinted >>

\* the drain loop ends; return errors
Return ==
    /\ pc = "drain"
    /\ ~DrainContinues
    /\ pc' = "done"
    /\ UNCHANGED << inputs, errors, templates, chanMade, errChan, totalGoroutines,
                    i, pendingRes, pendingDs, goroutines, files, usagePrinted >>

\* --------------------------------------------------------------- goroutines

\* What a rendered file holds: the template executed against the task's data
Content(t, templateName) == [template |-> templateName, data |-> t]

\* Render(name, outputPath, data): TemplateNotFoundError when the name is not
\* in the set, RenderError when execution fails, WriteError when the write
\* fails, nil otherwise
RenderResult(t, base) ==
    IF ~Lookup(base.template, base.templateName)
    THEN Result("TemplateNotFoundError", t)
    ELSE IF t \in faults.render THEN Result("RenderError", t)
    ELSE IF t \in faults.write THEN Result("WriteError", t)
    ELSE Nil

\* a worker renders its template into its output file
Render(t) ==
    /\ t \in Launched
    /\ goroutines[t].status = "running"
    /\ LET base == goroutines[t]
           res == RenderResult(t, base)
       IN /\ goroutines' =
                [goroutines EXCEPT ![t].status = "sending", ![t].result = res]
          /\ files' = IF res = Nil
                      THEN (base.outFile :> Content(t, base.templateName)) @@ files
                      ELSE files
    /\ UNCHANGED << inputs, pc, errors, templates, chanMade, errChan,
                    totalGoroutines, i, pendingRes, pendingDs, usagePrinted >>

\* a worker deposits its single result: errChan <- err, which blocks while the
\* buffer is full
Send(t) ==
    /\ t \in Launched
    /\ goroutines[t].status = "sending"
    /\ Len(errChan) < ChanCap
    /\ errChan' = Append(errChan, goroutines[t].result)
    /\ goroutines' = [goroutines EXCEPT ![t].status = "done"]
    /\ UNCHANGED << inputs, pc, errors, templates, chanMade, totalGoroutines, i,
                    pendingRes, pendingDs, files, usagePrinted >>

\* ------------------------------------------------------------ specification

Next ==
    \/ ParseArgs
    \/ CheckHelp
    \/ ParseTemplates
    \/ MakeChan
    \/ LaunchMkdocs
    \/ LaunchIndex
    \/ LaunchResource
    \/ ResourcesDone
    \/ LaunchDataSource
    \/ DataSourcesDone
    \/ Receive
    \/ Return
    \/ \E t \in AllTasks : Render(t)
    \/ \E t \in AllTasks : Send(t)

Spec == Init /\ [][Next]_vars

\* The scheduler leaves no step that stays possible undone forever: Document
\* runs on, and every goroutine that can take a step gets to take it
FairSpecAllInputs == Spec /\ WF_vars(Next)

\* The fair runs in which no rendering or writing fault is injected (tasks
\* still fail where their template is not found)
FairInit == Init /\ faults = NoFaults

FairSpec == FairInit /\ [][Next]_vars /\ WF_vars(Next)

\* The worker that hangs in the runs with a hang: that of resource "widget"
\* (a run whose provider has no such resource has no hang)
Hung == Task(typeResource, Widget)

\* The steps of a run in which the worker Hung blocks in its rendering (on the
\* file system, say) and so never deposits a result
NextHang ==
    \/ ParseArgs
    \/ CheckHelp
    \/ ParseTemplates
    \/ MakeChan
    \/ LaunchMkdocs
    \/ LaunchIndex
    \/ LaunchResource
    \/ ResourcesDone
    \/ LaunchDataSource
    \/ DataSourcesDone
    \/ Receive
    \/ Return
    \/ \E t \in AllTasks \ {Hung} : Render(t)
    \/ \E t \in AllTasks : Send(t)

HangSpec == Init /\ [][NextHang]_vars

\* A worker that breaks the protocol: after its send it deposits its result a
\* second time
SendAgain(t) ==
    /\ t \in Launched
    /\ goroutines[t].status = "done"
    /\ Len(errChan) < ChanCap
    /\ errChan' = Append(errChan, goroutines[t].result)
    /\ goroutines' = [goroutines EXCEPT ![t].status = "doneTwice"]
    /\ UNCHANGED << inputs, pc, errors, templates, chanMade, totalGoroutines, i,
                    pendingRes, pendingDs, files, usagePrinted >>

\* The runs in which the config worker sends twice
DoubleSendSpec == Init /\ [][Next \/ SendAgain(MkdocsTask)]_vars

\* ------------------------------------------------------------------ claims

\* Document has returned
Returned == pc = "done"

\* Document has returned after running the pipeline (it got past argument
\* parsing, the help flag and template loading)
PipelineReturned == pc = "done" /\ chanMade

\* The result a launched task's worker has computed
ResultOf(t) == goroutines[t].result

\* The launched tasks whose worker has failed
Failed == {t \in Launched : goroutines[t].status # "running" /\ ResultOf(t) # Nil}

ResourceTasks == {Task(typeResource, n) : n \in provider.ResourcesMap}
DataSourceTasks == {Task(typeDataSource, n) : n \in provider.DataSourcesMap}

NumResources == Cardinality(provider.ResourcesMap)
NumDataSources == Cardinality(provider.DataSourcesMap)

\* C1: when Document has returned from the pipeline path, it has received
\* exactly as many results as it launched workers: the number of receives, the
\* counter totalGoroutines and the number of launched workers are equal.
C1_DrainsExactlyN ==
    PipelineReturned =>
        /\ i = totalGoroutines
        /\ totalGoroutines = Cardinality(Launched)

C1_Witness ==
    /\ PipelineReturned
    /\ i = Cardinality(Launched)
    /\ i = 2 + MaxResources + MaxDataSources

\* C2: throughout the submission phase totalGoroutines equals the number of
\* workers launched so far, and once submission is over exactly 1 + 1 + R + D
\* tasks have been launched: the config task, the index task, one per resource
\* map entry and one per data-source map entry.
C2_TaskCount ==
    /\ totalGoroutines = Cardinality(Launched)
    /\ pc = "index" => Launched = {MkdocsTask}
    /\ pc = "resources" =>
           Launched = {MkdocsTask, IndexTask}
                         \cup {Task(typeResource, n) :
                                  n \in provider.ResourcesMap \ pendingRes}
    /\ (pc = "drain" \/ PipelineReturned) =>
           /\ totalGoroutines = 1 + 1 + NumResources + NumDataSources
           /\ Launched = TasksOf(provider)

C2_Witness ==
    /\ pc = "drain"
    /\ NumResources = MaxResources
    /\ NumDataSources = MaxDataSources
    /\ totalGoroutines = 2 + MaxResources + MaxDataSources

\* C3: the pipeline never short-circuits: when Document returns from the
\* pipeline path every task has been launched and has run to completion
\* whatever its siblings did; and if exactly one resource task failed and all
\* others succeeded, the returned list holds exactly that one error and the
\* output file of every other task has been produced.
C3_IndependentFailure ==
    PipelineReturned =>
        /\ \A t \in TasksOf(provider) :
               t \in Launched /\ goroutines[t].status = "done"
        /\ \A r \in ResourceTasks :
               (Failed = {r}) =>
                   /\ errors = << ResultOf(r) >>
                   /\ \A t \in TasksOf(provider) \ {r} :
                          goroutines[t].outFile \in DOMAIN files

C3_Witness ==
    /\ PipelineReturned
    /\ NumResources = MaxResources
    /\ \E r \in ResourceTasks :
           /\ Failed = {r}
           /\ ResultOf(r).kind = "RenderError"
           /\ \A t \in TasksOf(provider) \ {r} :
                  goroutines[t].outFile \in DOMAIN files

\* C4: the list a pipeline run returns holds every non-nil result a worker
\* sent, each once, and nothing else: its length is the number of failed
\* tasks, and it is empty exactly when every task succeeded.
C4_ErrorsAreTheFailures ==
    PipelineReturned =>
        /\ Len(errors) = Cardinality(Failed)
        /\ \A t \in Failed : \E k \in 1..Len(errors) : errors[k] = ResultOf(t)
        /\ \A k \in 1..Len(errors) : \E t \in Failed : errors[k] = ResultOf(t)
        /\ (errors = <<>>) <=> (\A t \in Launched : ResultOf(t) = Nil)

C4_Witness ==
    /\ PipelineReturned
    /\ Len(errors) >= 2
    /\ \E t \in Launched : ResultOf(t) = Nil

\* The run fails fatally: argument parsing fails, or template loading is
\* reached and fails
FatalArguments == args.err
FatalTemplates ==
    ~args.err /\ ~args.help /\ parseTemplates(args).err # Nil

\* C5: a fatal error short-circuits the run: when argument parsing or template
\* loading fails, no channel is ever created, no worker launched and no file
\* written, and Document returns a list whose sole element is that error.
C5_FatalShortCircuits ==
    /\ FatalArguments =>
           /\ ~chanMade /\ Launched = {} /\ files = NoFiles
           /\ Returned => errors = << ArgumentError >>
    /\ FatalTemplates =>
           /\ ~chanMade /\ Launched = {} /\ files = NoFiles
           /\ Returned => errors = << TemplateLoadError >>

\* two template files in different directories with the same stripped name
C5_Witness ==
    /\ Returned
    /\ errors = << TemplateLoadError >>
    /\ \E f, g \in args.templatesDir.files : f.dir # g.dir /\ f.name = g.name
    /\ files = NoFiles

\* C6: with the help flag set (and the arguments parsed), only the usage text
\* is printed: the templates are never loaded, no channel is created, no worker
\* launched, no file written, and Document returns an empty list, whatever the
\* state of the templates directory.
C6_HelpOnly ==
    (~args.err /\ args.help) =>
        /\ templates = NoTemplates
        /\ ~chanMade /\ Launched = {} /\ files = NoFiles
        /\ errors = <<>>
        /\ Returned => usagePrinted

C6_Witness ==
    /\ Returned
    /\ args.help
    /\ usagePrinted
    /\ ~args.templatesDir.exists
    /\ errors = <<>>

\* A name that is a single path component (no separator, not "." or "..")
PlainName(n) == Len(n) = 1 /\ n[1] # Dot /\ n[1] # DotDot

ValidSchema ==
    /\ \A n \in provider.ResourcesMap : PlainName(n)
    /\ \A n \in provider.DataSourcesMap : PlainName(n)

\* The output paths the package documentation lists
DocumentedPaths ==
    { << Str("mkdocs.yml") >>, args.docsDir \o << Str("index.md") >> }
        \cup { args.docsDir \o << Str("resources"), n[1] \o Str(".md") >> :
                 n \in provider.ResourcesMap }
        \cup { args.docsDir \o << Str("data-sources"), n[1] \o Str(".md") >> :
                 n \in provider.DataSourcesMap }

\* C7: on a fully successful run over a valid schema with R resources and D
\* data sources exactly 2 + R + D output files exist: mkdocs.yml,
\* <docsDir>/index.md, <docsDir>/resources/<name>.md for each resource and
\* <docsDir>/data-sources/<name>.md for each data source.
C7_FileCount ==
    (PipelineReturned /\ ValidSchema /\ Failed = {}) =>
        /\ Cardinality(DOMAIN files) = 2 + NumResources + NumDataSources
        /\ DOMAIN files = DocumentedPaths

\* a full run with a resource and a data source of the same name
C7_Witness ==
    /\ PipelineReturned
    /\ ValidSchema
    /\ Failed = {}
    /\ NumResources = MaxResources
    /\ provider.ResourcesMap \cap provider.DataSourcesMap # {}
    /\ Cardinality(DOMAIN files) = 2 + MaxResources + NumDataSources

\* The loaded set lacks the resource binding and holds the other three
ResourceBindingMissing ==
    /\ (resourceMdTemplate \o args.templateFileExt) \notin templates.names
    /\ (mkdocsYmlTemplate \o args.templateFileExt) \in templates.names
    /\ (providerMdTemplate \o args.templateFileExt) \in templates.names
    /\ (dataSourceMdTemplate \o args.templateFileExt) \in templates.names

Faulted == faults.render \cup faults.write

\* C8: when the resource binding is missing from the loaded set and the other
\* bindings exist, every resource task fails with TemplateNotFoundError (the
\* returned list holds exactly R such errors), while the config and index
\* tasks, unless their own rendering or writing fails, succeed and their
\* files are generated.
C8_MissingBinding ==
    (PipelineReturned /\ ResourceBindingMissing) =>
        /\ \A r \in ResourceTasks : ResultOf(r) = Result("TemplateNotFoundError", r)
        /\ Cardinality({k \in 1..Len(errors) :
                           errors[k].kind = "TemplateNotFoundError"}) = NumResources
        /\ \A t \in {MkdocsTask, IndexTask} \ Faulted :
               /\ ResultOf(t) = Nil
               /\ goroutines[t].outFile \in DOMAIN files
               /\ files[goroutines[t].outFile] =
                      Content(t, BindingOf(t) \o args.templateFileExt)

C8_Witness ==
    /\ PipelineReturned
    /\ ResourceBindingMissing
    /\ NumResources = MaxResources
    /\ Len(errors) = MaxResources
    /\ << Str("mkdocs.yml") >> \in DOMAIN files
    /\ (args.docsDir \o << Str("index.md") >>) \in DOMAIN files

\* The template directory holds exactly the four files <binding><ext>
StandardLayout ==
    args.templatesDir = [exists |-> TRUE, files |-> StandardFiles(args.templateFileExt)]

\* C9: on the standard layout, with rendering and writing succeeding, every
\* task's lookup of <binding><ext> in the set Build made finds a template and
\* the returned list is empty.
C9_StandardLayoutResolves ==
    (PipelineReturned /\ StandardLayout /\ faults = NoFaults) =>
        /\ \A t \in Launched : Lookup(templates, goroutines[t].templateName)
        /\ errors = <<>>

\* The tasks whose rendering succeeds, by the inputs alone
Succeeds(t) == RenderResult(t, goroutineBase(t)) = Nil

\* The task whose content a path holds, by the inputs alone
OwnerOf(path) ==
    CHOOSE t \in TasksOf(provider) : Succeeds(t) /\ OutFile(t) = path

\* C10: the outcome of a run is a function of its inputs, whatever the
\* schedule: the set of output files is that of the succeeding tasks, each
\* file holds the rendering of the task it belongs to, and the returned list
\* holds, in some order, the errors of the failing tasks.
C10_Deterministic ==
    PipelineReturned =>
        /\ DOMAIN files = {OutFile(t) : t \in {u \in TasksOf(provider) : Succeeds(u)}}
        /\ \A path \in DOMAIN files :
               files[path] = Content(OwnerOf(path), TemplateName(OwnerOf(path)))
        /\ Len(errors) = Cardinality({t \in TasksOf(provider) : ~Succeeds(t)})
        /\ \A t \in TasksOf(provider) :
               ~Succeeds(t) =>
                   \E k \in 1..Len(errors) :
                       errors[k] = RenderResult(t, goroutineBase(t))

\* A worker has finished its work and waits to deposit its result
Sending(t) == t \in Launched /\ goroutines[t].status = "sending"

\* C11: no worker blocks on send: no worker that has finished its work is
\* ever waiting to deposit its result because errChan is full.
C11_NoBlockedSender ==
    \A t \in AllTasks : Sending(t) => Len(errChan) < ChanCap

\* Document is launching tasks
Submitting == pc \in {"mkdocs", "index", "resources", "datasources"}

\* C12: Document submits every task before it drains: nothing has been
\* received while a task is still to be launched, the first receive comes
\* with all 2 + R + D workers launched, and while tasks remain to be launched
\* the next launch step is enabled whatever the workers already launched have
\* done (finished, failed or blocked on their send).
C12_SubmitThenDrain ==
    /\ Submitting => (i = 0 /\ errors = <<>>)
    /\ i > 0 =>
           /\ Launched = TasksOf(provider)
           /\ Cardinality(Launched) = 2 + NumResources + NumDataSources
    /\ Submitting =>
           ENABLED (LaunchMkdocs \/ LaunchIndex \/ LaunchResource \/ ResourcesDone
                       \/ LaunchDataSource \/ DataSourcesDone)

\* a launch is still to come while the config worker has already deposited a
\* failure and the index worker is blocked on its send
C12_Witness ==
    /\ pc = "resources"
    /\ pendingRes # {}
    /\ goroutines[MkdocsTask].status = "done"
    /\ goroutines[MkdocsTask].result # Nil
    /\ Sending(IndexTask)
    /\ i = 0

\* C13: the returned list is in arrival order: in the pipeline the list only
\* changes when a result is received, and then the non-nil result just taken
\* from errChan is put after the errors received before it (a nil result
\* leaves the list as it is); the order is that of arrival, not of
\* submission.
C13_ArrivalOrder ==
    [][ chanMade =>
          IF errChan # <<>> /\ errChan' = Tail(errChan)
          THEN errors' = IF Head(errChan) # Nil
                         THEN Append(errors, Head(errChan))
                         ELSE errors
          ELSE errors' = errors ]_vars

\* the config task is submitted before the index task, both fail, and the
\* index task's error is first in the returned list
C13_Witness ==
    /\ PipelineReturned
    /\ Len(errors) >= 2
    /\ errors[1] = ResultOf(IndexTask)
    /\ errors[2] = ResultOf(MkdocsTask)

\* the same two errors in submission order
C13_InSubmissionOrder ==
    /\ PipelineReturned
    /\ Len(errors) >= 2
    /\ errors[1] = ResultOf(MkdocsTask)
    /\ errors[2] = ResultOf(IndexTask)

\* The launched workers other than the one that hangs
Siblings == Launched \ {Hung}

\* The tasks other than t that are given the same output path as t
SharesPath(t) == {u \in TasksOf(provider) \ {t} : OutFile(u) = OutFile(t)}

\* C14: there is no cancellation and no timeout: in a run where one worker
\* hangs and never deposits its result, Document never returns and its drain
\* stays short of N, while no sibling is held up in its rendering, the errors
\* recorded are exactly results of siblings that have deposited theirs, and
\* the file of every sibling that succeeded is there with its own content.
C14_HangStallsOnlyTheCount ==
    (chanMade /\ Hung \in TasksOf(provider)) =>
        /\ ~Returned
        /\ Hung \in Launched =>
               (goroutines[Hung].status = "running" /\ i < totalGoroutines)
        /\ \A s \in Siblings :
               goroutines[s].status = "running" => ENABLED Render(s)
        /\ \A k \in 1..Len(errors) :
               \E s \in Siblings :
                   goroutines[s].status = "done" /\ errors[k] = ResultOf(s)
        /\ \A s \in Siblings :
               (goroutines[s].status # "running" /\ ResultOf(s) = Nil) =>
                   /\ goroutines[s].outFile \in DOMAIN files
                   /\ SharesPath(s) = {} =>
                          files[goroutines[s].outFile] =
                              Content(s, goroutines[s].templateName)

\* every sibling has completed and been received, one of them with an error,
\* and Document waits for the result that never comes
C14_Witness ==
    /\ pc = "drain"
    /\ Hung \in Launched
    /\ Launched = TasksOf(provider)
    /\ Cardinality(Siblings) = 1 + MaxResources + MaxDataSources
    /\ \A s \in Siblings : goroutines[s].status = "done"
    /\ goroutines[Hung].status = "running"
    /\ i = totalGoroutines - 1
    /\ Len(errors) = 1
    /\ errChan = <<>>

\* C15: no two tasks launched by Document are given the same output path.
C15_DisjointPaths ==
    \A t, u \in Launched :
        t # u => goroutines[t].outFile # goroutines[u].outFile

\* C16: the TemplateSet is built once, before any launch, and shared: until
\* template loading is done nothing is launched, and from the first launch on
\* the set is the one Build made of the arguments, unchanged, and is the set
\* every launched worker was handed.
C16_TemplatesBuiltOnceAndShared ==
    /\ pc \in {"parseArgs", "checkHelp", "parseTemplates"} =>
           (Launched = {} /\ templates = NoTemplates)
    /\ Launched # {} =>
           /\ templates = parseTemplates(args)
           /\ templates.err = Nil
           /\ \A t \in Launched : goroutines[t].template = templates

C16_Witness ==
    /\ PipelineReturned
    /\ Cardinality(Launched) = 2 + MaxResources + MaxDataSources
    /\ templates.names # {}
    /\ \A t \in Launched : goroutines[t].template = templates

\* Document waits in its drain loop for a result on an empty channel
WaitingOnEmpty == pc = "drain" /\ DrainContinues /\ errChan = <<>>

\* A worker that still has a step to take: it renders, or it has a result
\* to deposit and the channel has room
CanStep(t) ==
    /\ t \in Launched
    /\ \/ goroutines[t].status = "running"
       \/ goroutines[t].status = "sending" /\ Len(errChan) < ChanCap

\* C17: with the channel of capacity 1 and each worker sending one result,
\* Document never waits on an empty channel with no worker left to fill it,
\* no state short of the return is stuck, and under fair scheduling Document
\* eventually returns.
C17_Terminates ==
    /\ [](WaitingOnEmpty => \E t \in AllTasks : CanStep(t))
    /\ [](Returned \/ ENABLED Next)
    /\ <>Returned

\* a run of the largest size has returned
C17_Witness ==
    /\ PipelineReturned
    /\ totalGoroutines = 2 + MaxResources + MaxDataSources
    /\ i = totalGoroutines

\* C18: no worker leaks and no result is stranded: when Document returns from
\* the pipeline, errChan is empty and every launched worker has deposited its
\* result (none is blocked on its send, none still holds a result).
C18_NothingLeftBehind ==
    PipelineReturned =>
        /\ errChan = <<>>
        /\ \A t \in Launched : goroutines[t].status = "done"
        /\ \A t \in AllTasks : ~Sending(t)

\* the return of a run in which workers were blocked on the full channel
C18_Witness ==
    /\ PipelineReturned
    /\ errChan = <<>>
    /\ Cardinality(Launched) = 2 + MaxResources + MaxDataSources
    /\ Cardinality(Launched) > ChanCap

\* The converse of C18, for the runs of DoubleSendSpec: when Document returns
\* after its N receives, a result is left in errChan, or some worker has not
\* deposited its result yet, or the worker that sends twice still has its
\* second result to deposit.
C18_DoubleSendStrands ==
    PipelineReturned =>
        \/ errChan # <<>>
        \/ \E t \in Launched : goroutines[t].status \in {"running", "sending"}
        \/ goroutines[MkdocsTask].status = "done"

====
